---- MODULE Spec2Model ----
(***************************************************************************)
(* Configuration singletons of config_tools.py: the Singleton metaclass    *)
(* registry, the load / reload contract of ConfigSuperClass and the        *)
(* keyword binding of a configuration class's __init__.                    *)
(*                                                                         *)
(* A host program declares the concrete configuration classes.  Two host   *)
(* programs are modelled: "nested", the classes of the module docstring    *)
(* (_SubConfig, ConfigurationData, NewConfigurationData), and "flat", the  *)
(* class Config(host, port, timeout=30) of the specification's scenarios   *)
(* with a subclass of it.                                                  *)
(***************************************************************************)
EXTENDS Integers, Sequences, FiniteSets, TLC

\* Scalar configuration values are 1..NumValues.
NumValues == 2

\* The default of Config's timeout parameter.
DefaultTimeout == 30

VARIABLES
    _instances,   \* Singleton._instances: class -> identity of its instance
    heap,         \* live objects: identity -> __dict__ (attributes in insertion order)
    __debug__,    \* the interpreter's __debug__ (FALSE under python -O)
    program,      \* which host program declares the classes
    call,         \* the last call: operation, class, argument, path
    ret,          \* what the last call returned (a reference, or None)
    exc,          \* the exception the last call raised (NoExc when it returned)
    steps,        \* what the last call executed, in order
    text,         \* the string the last repr() produced
    sched,        \* a call of a function decorated by schedule_every: where
                  \* it is in inner's loop, and what it measured
    threads       \* threads inside a load of the same class: where each is
                  \* in Singleton.__call__, its argument, object and result

configVars ==
    <<_instances, heap, __debug__, program, call, ret, exc, steps, text, threads>>
vars ==
    <<_instances, heap, __debug__, program, call, ret, exc, steps, text, sched, threads>>

----------------------------------------------------------------------------
(* Values.  Every value is a record of the same shape: an integer scalar,  *)
(* a mapping (a dict: entries [k, v] in insertion order), a reference to   *)
(* an object (its class and number are its identity) or None.              *)

IntV(i) == [kind |-> "int", n |-> i, cls |-> "", m |-> <<>>]
MapV(s) == [kind |-> "map", n |-> 0, cls |-> "", m |-> s]
RefV(id) == [kind |-> "ref", n |-> id.n, cls |-> id.cls, m |-> <<>>]
NoneV == [kind |-> "none", n |-> 0, cls |-> "", m |-> <<>>]

IdOf(v) == [cls |-> v.cls, n |-> v.n]
Entry(key, v) == [k |-> key, v |-> v]
Keys(m) == {m[i].k : i \in DOMAIN m}
Get(m, key) == m[CHOOSE i \in DOMAIN m : m[i].k = key].v
EmptyFn == [x \in {} |-> x]
Min(S) == CHOOSE x \in S : \A y \in S : x <= y

----------------------------------------------------------------------------
(* The declared classes.  params is the __init__ signature, defaults the   *)
(* parameters with a default value, body the statements of __init__ in     *)
(* order: "assign" is self.attr = param, "new" is self.attr = cls(param as  *)
(* keywords) for a plain class, "load" is                                  *)
(* self.attr = cls.load_from_dict(param).                                  *)

Stmt(s, attr, param, cls) == [stmt |-> s, attr |-> attr, param |-> param, cls |-> cls]

_SubConfig ==
    [name |-> "_SubConfig", base |-> "SubConfig", singleton |-> FALSE,
     params |-> <<"param3", "param4">>, defaults |-> <<>>,
     body |-> <<Stmt("assign", "param3", "param3", ""),
                Stmt("assign", "param4", "param4", "")>>]

ConfigurationData ==
    [name |-> "ConfigurationData", base |-> "ConfigSuperClass", singleton |-> TRUE,
     params |-> <<"param1", "param2", "subconf">>, defaults |-> <<>>,
     body |-> <<Stmt("assign", "param1", "param1", ""),
                Stmt("assign", "param2", "param2", ""),
                Stmt("new", "subconf", "subconf", "_SubConfig")>>]

NewConfigurationData ==
    [name |-> "NewConfigurationData", base |-> "ConfigSuperClass", singleton |-> TRUE,
     params |-> <<"param5", "param6", "subconf", "data_conf">>, defaults |-> <<>>,
     body |-> <<Stmt("load", "config_data", "data_conf", "ConfigurationData"),
                Stmt("assign", "param5", "param5", ""),
                Stmt("assign", "param6", "param6", "")>>]

Config ==
    [name |-> "Config", base |-> "ConfigSuperClass", singleton |-> TRUE,
     params |-> <<"host", "port", "timeout">>,
     defaults |-> <<Entry("timeout", IntV(DefaultTimeout))>>,
     body |-> <<Stmt("assign", "host", "host", ""),
                Stmt("assign", "port", "port", ""),
                Stmt("assign", "timeout", "timeout", "")>>]

\* class ChildConfig(Config): pass -- it inherits __init__ and the metaclass.
ChildConfig == [Config EXCEPT !.name = "ChildConfig", !.base = "Config"]

Decl(cls) ==
    CASE cls = "_SubConfig" -> _SubConfig
      [] cls = "ConfigurationData" -> ConfigurationData
      [] cls = "NewConfigurationData" -> NewConfigurationData
      [] cls = "Config" -> Config
      [] cls = "ChildConfig" -> ChildConfig

Programs == {"flat", "nested"}

\* The singleton configuration classes a host program declares.
Declared(p) ==
    IF p = "flat" THEN {"Config", "ChildConfig"}
    ELSE {"ConfigurationData", "NewConfigurationData"}

ParamSet(cls) == {Decl(cls).params[i] : i \in DOMAIN Decl(cls).params}
Required(cls) == ParamSet(cls) \ Keys(Decl(cls).defaults)

----------------------------------------------------------------------------
(* Exceptions.  A TypeError of argument binding carries what its message   *)
(* says: kind "unexpected" (got an unexpected keyword argument 'k'),       *)
(* "missing" (missing N required positional arguments: ...) or             *)
(* "not_a_mapping" (argument after ** must be a mapping), and the          *)
(* parameter names the message quotes.                                     *)

Exc(type, kind, names, origin) ==
    [type |-> type, kind |-> kind, names |-> names, origin |-> origin]
NoExc == Exc("", "", <<>>, "")

Result(st, e, v) == [st |-> st, exc |-> e, val |-> v]
Step(st, s) == [st EXCEPT !.steps = Append(@, s)]

\* Faulty variant of Bind: only the first missing parameter is reported.
Bind_FirstMissingOnly(cls, v) ==
    IF v.kind # "map" THEN Exc("TypeError", "not_a_mapping", <<>>, "")
    ELSE LET m == v.m
             unexpected == {i \in DOMAIN m : m[i].k \notin ParamSet(cls)}
             IsMissing(p) == p \notin Keys(m) /\ p \in Required(cls)
             missing == SelectSeq(Decl(cls).params, IsMissing)
         IN  IF unexpected # {}
             THEN Exc("TypeError", "unexpected", <<m[Min(unexpected)].k>>, "")
             ELSE IF missing # <<>>
             THEN Exc("TypeError", "missing", <<Head(missing)>>, "")
             ELSE NoExc

\* Faulty variant of Bind: undeclared keywords are accepted and dropped, as
\* a signature ending in a catch-all keyword parameter would.
Bind_AcceptsUndeclared(cls, v) ==
    IF v.kind # "map" THEN Exc("TypeError", "not_a_mapping", <<>>, "")
    ELSE LET m == v.m
             IsMissing(p) == p \notin Keys(m) /\ p \in Required(cls)
             missing == SelectSeq(Decl(cls).params, IsMissing)
         IN  IF missing # <<>>
             THEN Exc("TypeError", "missing", missing, "")
             ELSE NoExc

\* Python's binding of the keyword arguments of v to cls.__init__: the first
\* keyword (in the mapping's order) that is no parameter is reported before
\* any missing parameter; the missing ones are listed in signature order.
Bind(cls, v) ==
    IF v.kind # "map" THEN Exc("TypeError", "not_a_mapping", <<>>, "")
    ELSE LET m == v.m
             unexpected == {i \in DOMAIN m : m[i].k \notin ParamSet(cls)}
             IsMissing(p) == p \notin Keys(m) /\ p \in Required(cls)
             missing == SelectSeq(Decl(cls).params, IsMissing)
         IN  IF unexpected # {}
             THEN Exc("TypeError", "unexpected", <<m[Min(unexpected)].k>>, "")
             ELSE IF missing # <<>>
             THEN Exc("TypeError", "missing", missing, "")
             ELSE NoExc

\* Faulty variant of Arg: an omitted parameter is bound to None, not to its
\* declared default.
Arg_NoDefault(cls, m, p) == IF p \in Keys(m) THEN Get(m, p) ELSE NoneV

\* The value bound to parameter p: the keyword's, else the default.
Arg(cls, m, p) == IF p \in Keys(m) THEN Get(m, p) ELSE Get(Decl(cls).defaults, p)

\* Faulty variant of SetAttr: an attribute assigned again moves to the end
\* of the __dict__ (as deleting it first would).
SetAttr_MovesToEnd(d, attr, v) ==
    LET Other(e) == e.k # attr IN Append(SelectSeq(d, Other), Entry(attr, v))

\* self.attr = v on the __dict__ d: an existing attribute keeps its place.
SetAttr(d, attr, v) ==
    IF attr \in Keys(d)
    THEN [i \in DOMAIN d |-> IF d[i].k = attr THEN Entry(attr, v) ELSE d[i]]
    ELSE Append(d, Entry(attr, v))

\* A new object's identity: its class and the first number no live object
\* of the class holds.
FreshId(cls, h) ==
    [cls |-> cls, n |-> Min({i \in 1..(Cardinality(DOMAIN h) + 1) :
                                [cls |-> cls, n |-> i] \notin DOMAIN h})]

----------------------------------------------------------------------------
(* The calls.  A call takes the interpreter state st = [inst, heap, steps] *)
(* (the registry, the objects, the trace of what ran) to a Result: the     *)
(* state after it, the exception it raised (NoExc: none) and its value.    *)

RECURSIVE ExecBody(_, _, _, _, _), InitCall(_, _, _, _), TypeCall(_, _, _),
          SingletonCall(_, _, _), load_from_dict(_, _, _)

\* Faulty variant of _type_error_response: the origin is left out of the
\* exception.
_type_error_response_NoOrigin(origin, e) ==
    Exc("ConfigFileParamError", e.kind, e.names, "")

\* The exception _type_error_response raises for the TypeError e: the
\* message quotes e (so the parameter names e names) and the origin.
_type_error_response(origin, e) ==
    Exc("ConfigFileParamError", e.kind, e.names, origin)

\* A call f(v as keywords) whose outcome, once called, is r: a v that is no
\* mapping raises the TypeError where the call is written, before f runs.
Starred(v, st, r) ==
    IF v.kind # "map"
    THEN Result(st, Exc("TypeError", "not_a_mapping", <<>>, ""), NoneV)
    ELSE r

\* Faulty variant of ExecBody: a nested record the object already holds is
\* kept and initialised again in place; a new one is built only the first
\* time.
ExecBody_ReusesNested(cls, self, m, i, st) ==
    IF i > Len(Decl(cls).body) THEN Result(st, NoExc, NoneV)
    ELSE LET s == Decl(cls).body[i]
             a == Arg(cls, m, s.param)
             d == st.heap[self]
             r == CASE s.stmt = "assign" -> Result(st, NoExc, a)
                    [] s.stmt = "new" /\ s.attr \in Keys(d) ->
                         [Starred(a, st, InitCall(s.cls, IdOf(Get(d, s.attr)), a, st))
                             EXCEPT !.val = Get(d, s.attr)]
                    [] s.stmt = "new" /\ s.attr \notin Keys(d) ->
                         Starred(a, st, TypeCall(s.cls, a, st))
                    [] s.stmt = "load" -> load_from_dict(s.cls, a, st)
         IN  IF r.exc # NoExc THEN r
             ELSE ExecBody(cls, self, m, i + 1,
                           [r.st EXCEPT !.heap[self] = SetAttr(@, s.attr, r.val)])

\* Statements i.. of cls.__init__ run on self with the bound arguments m.
\* An exception stops the body where it is raised: what the statements
\* before it assigned stays assigned.
ExecBody(cls, self, m, i, st) ==
    IF i > Len(Decl(cls).body) THEN Result(st, NoExc, NoneV)
    ELSE LET s == Decl(cls).body[i]
             a == Arg(cls, m, s.param)
             r == CASE s.stmt = "assign" -> Result(st, NoExc, a)
                    [] s.stmt = "new" -> Starred(a, st, TypeCall(s.cls, a, st))
                    [] s.stmt = "load" -> load_from_dict(s.cls, a, st)
         IN  IF r.exc # NoExc THEN r
             ELSE ExecBody(cls, self, m, i + 1,
                           [r.st EXCEPT !.heap[self] = SetAttr(@, s.attr, r.val)])

\* self.__init__(v as keywords): the binding, then the body.
InitCall(cls, self, v, st) ==
    LET e == Bind(cls, v)
        st1 == Step(st, "__init__")
    IN  IF e # NoExc THEN Result(st1, e, NoneV)
        ELSE ExecBody(cls, self, v.m, 1, st1)

\* type.__call__: a new object of cls, initialised; the object is the value.
TypeCall(cls, v, st) ==
    LET id == FreshId(cls, st.heap)
        r == InitCall(cls, id, v, [st EXCEPT !.heap = (id :> <<>>) @@ @])
    IN  IF r.exc # NoExc THEN r ELSE [r EXCEPT !.val = RefV(id)]

\* Faulty variant of Singleton.__call__: the membership test is missing, so
\* every call constructs and registers a new instance.
SingletonCall_AlwaysConstructs(cls, v, st) ==
    LET r == TypeCall(cls, v, Step(st, "__call__"))
    IN  IF r.exc # NoExc THEN r
        ELSE Result([r.st EXCEPT !.inst =
                        [c \in DOMAIN @ \cup {cls} |->
                            IF c = cls THEN IdOf(r.val) ELSE @[c]]],
                    NoExc, r.val)

\* Faulty variant of Singleton.__call__: the registry is keyed by the
\* configuration class at the root of cls's inheritance, not by cls.
SingletonCall_KeyedByBase(cls, v, st) ==
    LET key == IF Decl(cls).base = "ConfigSuperClass" THEN cls ELSE Decl(cls).base
    IN  IF key \notin DOMAIN st.inst
        THEN LET r == TypeCall(cls, v, Step(st, "__call__"))
             IN  IF r.exc # NoExc THEN r
                 ELSE Result([r.st EXCEPT !.inst = (key :> IdOf(r.val)) @@ @],
                             NoExc, r.val)
        ELSE Result(Step(st, "__call__"), NoExc, RefV(st.inst[key]))

\* Faulty variant of Singleton.__call__: the arguments are bound to the
\* signature on every call, so a mismatch is raised even when the cached
\* instance would be returned.
SingletonCall_Revalidates(cls, v, st) ==
    IF cls \notin DOMAIN st.inst
    THEN LET r == TypeCall(cls, v, Step(st, "__call__"))
         IN  IF r.exc # NoExc THEN r
             ELSE Result([r.st EXCEPT !.inst = (cls :> IdOf(r.val)) @@ @],
                         NoExc, r.val)
    ELSE IF Bind(cls, v) # NoExc
    THEN Result(Step(st, "__call__"), Bind(cls, v), NoneV)
    ELSE Result(Step(st, "__call__"), NoExc, RefV(st.inst[cls]))

\* Singleton.__call__ (lines 140-143).
SingletonCall(cls, v, st) ==
    IF cls \notin DOMAIN st.inst
    THEN LET r == TypeCall(cls, v, Step(st, "__call__"))
         IN  IF r.exc # NoExc THEN r
             ELSE Result([r.st EXCEPT !.inst = (cls :> IdOf(r.val)) @@ @],
                         NoExc, r.val)
    ELSE Result(Step(st, "__call__"), NoExc, RefV(st.inst[cls]))

\* Faulty variant of Singleton.instance: a missing instance is answered with
\* None (a dict.get) and no exception.
instance_ReturnsNone(cls, st) ==
    IF cls \in DOMAIN st.inst THEN Result(st, NoExc, RefV(st.inst[cls]))
    ELSE Result(st, NoExc, NoneV)

\* Faulty variant of Singleton.instance: the entry is taken out of the
\* registry as it is returned (a dict.pop).
instance_Pops(cls, st) ==
    IF cls \in DOMAIN st.inst
    THEN Result([st EXCEPT !.inst = [c \in DOMAIN @ \ {cls} |-> @[c]]],
                NoExc, RefV(st.inst[cls]))
    ELSE Result(st, Exc("ConfigFileParamError", "not_loaded", <<>>, ""), NoneV)

\* Singleton.instance (lines 145-157).
instance(cls, st) ==
    IF cls \in DOMAIN st.inst THEN Result(st, NoExc, RefV(st.inst[cls]))
    ELSE Result(st, Exc("ConfigFileParamError", "not_loaded", <<>>, ""), NoneV)

\* What "except TypeError as e: _type_error_response(origin, e)" makes of r.
Translate(origin, r) ==
    IF r.exc.type = "TypeError"
    THEN [r EXCEPT !.exc = _type_error_response(origin, r.exc)]
    ELSE r

\* Faulty variant of load_from_dict: a class that has an instance is
\* brought up to date from the mapping before the instance is returned.
load_from_dict_Refreshes(cls, v, st) ==
    IF cls \in DOMAIN st.inst /\ v.kind = "map"
    THEN LET r == Translate("dict variable", InitCall(cls, st.inst[cls], v, st))
         IN  IF r.exc # NoExc THEN r ELSE [r EXCEPT !.val = RefV(st.inst[cls])]
    ELSE Translate("dict variable", Starred(v, st, SingletonCall(cls, v, st)))

\* ConfigSuperClass.load_from_dict (lines 210-221).
load_from_dict(cls, v, st) ==
    Translate("dict variable", Starred(v, st, SingletonCall(cls, v, st)))

\* "assert isfile(yaml_file)", then open and yaml.load.  The assert is
\* compiled only when __debug__ holds; without it open() meets the path.
ReadFile(file, dbg, st) ==
    IF dbg /\ ~file.isfile
    THEN Result(Step(st, "isfile"), Exc("AssertionError", "path", <<>>, file.path), NoneV)
    ELSE LET st1 == Step(IF dbg THEN Step(st, "isfile") ELSE st, "open")
         IN  IF ~file.isfile
             THEN Result(st1, Exc("FileNotFoundError", "path", <<>>, file.path), NoneV)
             ELSE IF ~file.parses
             THEN Result(Step(st1, "load"), Exc("YAMLError", "parse", <<>>, file.path), NoneV)
             ELSE Result(Step(st1, "load"), NoExc, file.content)

\* Faulty variant of from_file: the file is read inside the try block and
\* every exception of the read is translated as well.
from_file_TranslatesAll(cls, file, dbg, st) ==
    LET f == ReadFile(file, dbg, st)
    IN  IF f.exc # NoExc
        THEN [f EXCEPT !.exc = Exc("ConfigFileParamError", @.kind, @.names, file.path)]
        ELSE Translate(file.path, Starred(f.val, f.st, SingletonCall(cls, f.val, f.st)))

\* ConfigSuperClass.from_file (lines 192-208).
from_file(cls, file, dbg, st) ==
    LET f == ReadFile(file, dbg, st)
    IN  IF f.exc # NoExc THEN f
        ELSE Translate(file.path, Starred(f.val, f.st, SingletonCall(cls, f.val, f.st)))

\* Faulty variant of reload_from_dict: a new instance is constructed from
\* the mapping and registered in place of self.
reload_from_dict_Rebuilds(self, v, st) ==
    LET r == Translate("dict variable", Starred(v, st, TypeCall(self.cls, v, st)))
    IN  IF r.exc # NoExc THEN [r EXCEPT !.val = NoneV]
        ELSE Result([r.st EXCEPT !.inst[self.cls] = IdOf(r.val)], NoExc, NoneV)

\* ConfigSuperClass.reload_from_dict (lines 240-250), on the instance self.
reload_from_dict(self, v, st) ==
    LET r == Translate("dict variable", Starred(v, st, InitCall(self.cls, self, v, st)))
    IN  [r EXCEPT !.val = NoneV]

\* ConfigSuperClass.reload_from_file (lines 223-238), on the instance self.
reload_from_file(self, file, dbg, st) ==
    LET f == ReadFile(file, dbg, st)
    IN  IF f.exc # NoExc THEN f
        ELSE [Translate(file.path,
                        Starred(f.val, f.st, InitCall(self.cls, self, f.val, f.st)))
                 EXCEPT !.val = NoneV]

\* The objects the roots reach: an object no reference leads to is freed.
RECURSIVE Reach(_, _)
Reach(h, S) ==
    LET N == S \cup UNION {{IdOf(h[id][i].v) : i \in {j \in DOMAIN h[id] : h[id][j].v.kind = "ref"}}
                          : id \in S}
    IN  IF N = S THEN S ELSE Reach(h, N)

Range(f) == {f[x] : x \in DOMAIN f}

\* The threads of the concurrent first load, and a thread's local state.
Threads == {"t1", "t2"}
Thread(pc, arg, obj, val, e) ==
    [pc |-> pc, arg |-> arg, obj |-> obj, ret |-> val, exc |-> e]
NoThreads == [t \in Threads |-> Thread("", NoneV, NoneV, NoneV, NoExc)]

\* The objects the threads' local variables refer to.
ThreadRefs(th) ==
    {IdOf(th[t].obj) : t \in {u \in Threads : th[u].obj.kind = "ref"}}
      \cup {IdOf(th[t].ret) : t \in {u \in Threads : th[u].ret.kind = "ref"}}

\* The state a call leaves: the registry, the objects still referenced (by
\* the registry or by the returned value), and the record of the call.
Commit(op, cls, arg, file, r) ==
    LET roots == Range(r.st.inst) \cup ThreadRefs(threads)
                   \cup (IF r.val.kind = "ref" THEN {IdOf(r.val)} ELSE {})
        live == Reach(r.st.heap, roots)
    IN  /\ _instances' = r.st.inst
        /\ heap' = [id \in live |-> r.st.heap[id]]
        /\ call' = [op |-> op, cls |-> cls, arg |-> arg, file |-> file]
        /\ ret' = r.val
        /\ exc' = r.exc
        /\ steps' = r.st.steps
        /\ text' = ""
        /\ UNCHANGED <<__debug__, program, sched, threads>>

----------------------------------------------------------------------------
(* The inputs: the mappings and the files the calls are given.             *)

Scalars == {IntV(i) : i \in 1..NumValues}
One == IntV(1)

Without(mv, key) == LET Keep(e) == e.k # key IN MapV(SelectSeq(mv.m, Keep))
With(mv, key, v) == MapV(Append(mv.m, Entry(key, v)))

SubConfMap(p3) == MapV(<<Entry("param3", p3), Entry("param4", One)>>)
DataMap(p1, sub) ==
    MapV(<<Entry("param1", p1), Entry("param2", One), Entry("subconf", sub)>>)
NewDataMap(p5, dc) ==
    MapV(<<Entry("param5", p5), Entry("param6", One), Entry("subconf", One),
           Entry("data_conf", dc)>>)
ConfigMap(h) == MapV(<<Entry("host", h), Entry("port", One)>>)

\* Documents for cls, as a YAML file or a nested value holds them: the
\* complete ones, one short of a required key, one with a key too many,
\* one whose nested document is short of a key.
Documents(cls) ==
    CASE cls = "_SubConfig" ->
           {SubConfMap(v) : v \in Scalars}
             \cup {Without(SubConfMap(One), "param4"),
                   With(SubConfMap(One), "extra", One), One}
      [] cls = "ConfigurationData" ->
           {DataMap(v, SubConfMap(One)) : v \in Scalars}
             \cup {Without(DataMap(One, SubConfMap(One)), "subconf"),
                   With(DataMap(One, SubConfMap(One)), "extra", One),
                   DataMap(One, Without(SubConfMap(One), "param4"))}
      [] cls = "NewConfigurationData" ->
           {NewDataMap(v, DataMap(v, SubConfMap(One))) : v \in Scalars}
             \cup {Without(NewDataMap(One, DataMap(One, SubConfMap(One))), "data_conf"),
                   With(NewDataMap(One, DataMap(One, SubConfMap(One))), "extra", One),
                   NewDataMap(One, DataMap(One, Without(SubConfMap(One), "param4")))}
      [] cls \in {"Config", "ChildConfig"} ->
           {ConfigMap(v) : v \in Scalars}
             \cup {Without(ConfigMap(One), "port"),
                   With(ConfigMap(One), "extra", One)}

\* A complete mapping for cls, the one the defective mappings are cut from.
Base(cls) ==
    CASE cls = "ConfigurationData" -> DataMap(One, SubConfMap(One))
      [] cls = "NewConfigurationData" -> NewDataMap(One, DataMap(One, SubConfMap(One)))
      [] cls \in {"Config", "ChildConfig"} -> ConfigMap(One)

\* Mappings with exactly the keys cls requires (or a defaulted key as
\* well); a nested document may be any document of the nested class.
Complete(cls) ==
    CASE cls = "ConfigurationData" ->
           {DataMap(v, d) : v \in Scalars, d \in {SubConfMap(w) : w \in Scalars}}
             \cup {DataMap(One, d) : d \in Documents("_SubConfig")}
      [] cls = "NewConfigurationData" ->
           {NewDataMap(v, d) : v \in Scalars,
                               d \in {DataMap(w, SubConfMap(One)) : w \in Scalars}}
             \cup {NewDataMap(One, d) : d \in Documents("ConfigurationData")}
      [] cls \in {"Config", "ChildConfig"} ->
           {ConfigMap(v) : v \in Scalars} \cup {With(ConfigMap(One), "timeout", One)}

\* Mappings whose keys are not those of cls: each required key missing in
\* turn, all keys missing, one undeclared key, two undeclared keys, an
\* undeclared key together with a missing one.
Defective(cls) ==
    LET b == Base(cls)
        last == Decl(cls).params[Cardinality(Required(cls))]
    IN  {Without(b, p) : p \in Required(cls)}
          \cup {MapV(<<>>),
                With(b, "extra", One),
                With(With(b, "other", One), "extra", One),
                With(Without(b, last), "extra", One)}

\* The mappings load_from_dict and reload_from_dict are called with.
Mappings(cls) == Complete(cls) \cup Defective(cls)

NoFile == [path |-> "", isfile |-> FALSE, parses |-> FALSE, content |-> NoneV]

\* The paths from_file and reload_from_file are called with: no file, a
\* file the YAML loader rejects, an empty file (it loads as None), and a
\* file holding a document for cls.
Files(cls) ==
    {[path |-> "missing.yml", isfile |-> FALSE, parses |-> FALSE, content |-> NoneV],
     [path |-> "broken.yml", isfile |-> TRUE, parses |-> FALSE, content |-> NoneV],
     [path |-> "empty.yml", isfile |-> TRUE, parses |-> TRUE, content |-> NoneV]}
      \cup {[path |-> "conf.yml", isfile |-> TRUE, parses |-> TRUE, content |-> d]
            : d \in Documents(cls)}

----------------------------------------------------------------------------
(* scheduler.py: schedule_every(minutes) wraps func in inner, the loop     *)
(*     while True:                                                         *)
(*         start = datetime.now()                                          *)
(*         func()                                                          *)
(*         time_left = minutes * 60 - (datetime.now() - start).seconds     *)
(*         wait_until = time_left if time_left > 0 else 0                  *)
(*         sleep(wait_until)                                               *)
(* A timedelta is days, seconds (0..86399) and a fraction of a second     *)
(* (here none or a half); its attribute seconds is the seconds part alone. *)

MaxMinutes == 2     \* schedule_every is called with 1..MaxMinutes
MaxDays == 1        \* an invocation of func takes up to MaxDays days and a bit
MaxCount == 3       \* invocations and sleeps are counted up to MaxCount

SecondsPerMinute == 60
SecondsPerDay == 86400
FiveMinutes == 5

Timedelta(d, sec, h) == [days |-> d, seconds |-> sec, half |-> h]

\* How long an invocation of func may take: nothing, a moment, about the
\* period, almost a day, each with zero to MaxDays whole days more and with
\* or without half a second more.
Elapsed(minutes) ==
    {Timedelta(d, sec, h) :
        d \in 0..MaxDays,
        sec \in {0, 1, minutes * SecondsPerMinute - 1, minutes * SecondsPerMinute,
                 minutes * SecondsPerMinute + 1, SecondsPerDay - 1},
        h \in {0, 1}}

\* Lines 26-27: the seconds to sleep after an invocation that took td.
WaitUntil(minutes, td) ==
    LET time_left == minutes * SecondsPerMinute - td.seconds
    IN  IF time_left > 0 THEN time_left ELSE 0

Count(n) == IF n < MaxCount THEN n + 1 ELSE MaxCount

NotScheduled ==
    [decorator |-> "", minutes |-> 0, pc |-> "", elapsed |-> Timedelta(0, 0, 0),
     wait_until |-> 0, invocations |-> 0, sleeps |-> 0]

\* The decorated function is called: inner enters its loop, about to call
\* func for the first time.
SchedInit ==
    /\ \E dec \in {"schedule_every", "schedule_every_five_minutes"} :
       \E m \in 1..MaxMinutes :
          sched = [NotScheduled EXCEPT
                      !.decorator = dec, !.pc = "func",
                      !.minutes = IF dec = "schedule_every" THEN m ELSE FiveMinutes]
    /\ _instances = EmptyFn
    /\ heap = EmptyFn
    /\ __debug__ = TRUE
    /\ program = "flat"
    /\ call = [op |-> "", cls |-> "", arg |-> NoneV, file |-> NoFile]
    /\ ret = NoneV
    /\ exc = NoExc
    /\ steps = <<>>
    /\ text = ""
    /\ threads = NoThreads

\* Lines 24-27: func is called and returns after td; the sleep is computed.
FuncReturns ==
    /\ sched.pc = "func"
    /\ \E td \in Elapsed(sched.minutes) :
          sched' = [sched EXCEPT !.pc = "sleep", !.elapsed = td,
                                 !.wait_until = WaitUntil(sched.minutes, td),
                                 !.invocations = Count(@)]
    /\ UNCHANGED configVars

\* Line 25: func raises; nothing in inner catches it, the call of the
\* decorated function ends with the exception.
FuncRaises ==
    /\ sched.pc = "func"
    /\ sched' = [sched EXCEPT !.pc = "raised", !.invocations = Count(@)]
    /\ UNCHANGED configVars

\* Faulty variant of Sleep: inner returns after the sleep (an "if" where the
\* "while" is).
Sleep_Once ==
    /\ sched.pc = "sleep"
    /\ sched' = [sched EXCEPT !.pc = "returned", !.sleeps = Count(@)]
    /\ UNCHANGED configVars

\* Line 31 and back to line 23: sleep(wait_until), then the next round.
Sleep ==
    /\ sched.pc = "sleep"
    /\ sched' = [sched EXCEPT !.pc = "func", !.sleeps = Count(@)]
    /\ UNCHANGED configVars

SchedNext == FuncReturns \/ FuncRaises \/ Sleep

SpecSched == SchedInit /\ [][SchedNext]_vars

\* func and sleep return in the end, and the thread goes on running.
SpecSchedFair == SchedInit /\ [][SchedNext]_vars /\ WF_vars(SchedNext)

----------------------------------------------------------------------------
(* The state machine: one action per operation of the module.              *)

St0 == [inst |-> _instances, heap |-> heap, steps |-> <<>>]

Init ==
    /\ _instances = EmptyFn
    /\ heap = EmptyFn
    /\ __debug__ \in BOOLEAN
    /\ program \in Programs
    /\ call = [op |-> "", cls |-> "", arg |-> NoneV, file |-> NoFile]
    /\ ret = NoneV
    /\ exc = NoExc
    /\ steps = <<>>
    /\ text = ""
    /\ sched = NotScheduled
    /\ threads = NoThreads

LoadFromDict ==
    \E cls \in Declared(program) : \E v \in Mappings(cls) :
        Commit("load_from_dict", cls, v, NoFile, load_from_dict(cls, v, St0))

FromFile ==
    \E cls \in Declared(program) : \E f \in Files(cls) :
        Commit("from_file", cls, f.content, f, from_file(cls, f, __debug__, St0))

ReloadFromDict ==
    \E cls \in DOMAIN _instances : \E v \in Mappings(cls) :
        Commit("reload_from_dict", cls, v, NoFile,
               reload_from_dict(_instances[cls], v, St0))

ReloadFromFile ==
    \E cls \in DOMAIN _instances : \E f \in Files(cls) :
        Commit("reload_from_file", cls, f.content, f,
               reload_from_file(_instances[cls], f, __debug__, St0))

Instance ==
    \E cls \in Declared(program) :
        Commit("instance", cls, NoneV, NoFile, instance(cls, St0))

Next == LoadFromDict \/ FromFile \/ ReloadFromDict \/ ReloadFromFile \/ Instance

Spec == Init /\ [][Next]_vars

----------------------------------------------------------------------------
(* repr(): _ReprConfigurationMixin.__repr__ (lines 167-169), the class     *)
(* name and, between parentheses, key=repr(value) for the items of the     *)
(* __dict__ in its order, joined by ", ".                                  *)

Digit(i) ==
    CASE i = 0 -> "0" [] i = 1 -> "1" [] i = 2 -> "2" [] i = 3 -> "3" [] i = 4 -> "4"
      [] i = 5 -> "5" [] i = 6 -> "6" [] i = 7 -> "7" [] i = 8 -> "8" [] i = 9 -> "9"

\* repr of a non-negative int.
RECURSIVE IntRepr(_)
IntRepr(i) == IF i < 10 THEN Digit(i) ELSE IntRepr(i \div 10) \o Digit(i % 10)

\* ", ".join(parts)
RECURSIVE Join(_)
Join(parts) ==
    IF parts = <<>> THEN ""
    ELSE IF Len(parts) = 1 THEN parts[1]
    ELSE parts[1] \o ", " \o Join(Tail(parts))

\* repr(v) with the objects of h.
RECURSIVE Repr(_, _)
Repr(h, v) ==
    CASE v.kind = "int" -> IntRepr(v.n)
      [] v.kind = "none" -> "None"
      [] v.kind = "map" ->
           "{" \o Join([i \in DOMAIN v.m |->
                          "'" \o v.m[i].k \o "': " \o Repr(h, v.m[i].v)]) \o "}"
      [] v.kind = "ref" ->
           LET d == h[IdOf(v)]
           IN  v.cls \o "(" \o Join([i \in DOMAIN d |->
                                       d[i].k \o "=" \o Repr(h, d[i].v)]) \o ")"

\* repr(obj) of a live object: a configuration instance or a nested record.
ReprCall ==
    \E id \in DOMAIN heap :
        /\ text' = Repr(heap, RefV(id))
        /\ call' = [op |-> "__repr__", cls |-> id.cls, arg |-> RefV(id), file |-> NoFile]
        /\ ret' = NoneV
        /\ exc' = NoExc
        /\ steps' = <<"__repr__">>
        /\ UNCHANGED <<_instances, heap, __debug__, program, sched, threads>>

\* The host program loads and reloads its configuration from mappings and
\* prints the objects.
NextRepr == LoadFromDict \/ ReloadFromDict \/ ReprCall

SpecRepr == Init /\ [][NextRepr]_vars

----------------------------------------------------------------------------
(* Two threads in a first load of the same class.  Singleton.__call__ is   *)
(*     if cls not in cls._instances:                        (check)        *)
(*         cls._instances[cls] = super().__call__(...)      (construct,    *)
(*                                                           then store)   *)
(*     return cls._instances[cls]                           (return)       *)
(* with no lock: a thread may be preempted between any two of the steps.   *)

RaceClass == "Config"

\* What the threads load the class from.
RaceMappings == Complete(RaceClass) \cup {Without(ConfigMap(One), "port")}

RaceInit ==
    /\ \E m1 \in RaceMappings : \E m2 \in RaceMappings :
          threads = ("t1" :> Thread("check", m1, NoneV, NoneV, NoExc))
                      @@ ("t2" :> Thread("check", m2, NoneV, NoneV, NoExc))
    /\ _instances = EmptyFn
    /\ heap = EmptyFn
    /\ __debug__ = TRUE
    /\ program = "flat"
    /\ call = [op |-> "", cls |-> "", arg |-> NoneV, file |-> NoFile]
    /\ ret = NoneV
    /\ exc = NoExc
    /\ steps = <<>>
    /\ text = ""
    /\ sched = NotScheduled

\* The objects of h still referenced by the registry inst or the threads th.
Collect(h, inst, th) ==
    LET live == Reach(h, Range(inst) \cup ThreadRefs(th))
    IN  [id \in live |-> h[id]]

\* Line 141: the membership test.
RaceCheck(t) ==
    /\ threads[t].pc = "check"
    /\ threads' = [threads EXCEPT ![t].pc =
                      IF RaceClass \in DOMAIN _instances THEN "return" ELSE "construct"]
    /\ UNCHANGED <<_instances, heap, __debug__, program, call, ret, exc, steps,
                   text, sched>>

\* Line 142, right-hand side: the instance is constructed.  A TypeError of
\* the construction leaves __call__ and load_from_dict translates it.
RaceConstruct(t) ==
    /\ threads[t].pc = "construct"
    /\ LET r == TypeCall(RaceClass, threads[t].arg, St0)
           th == IF r.exc # NoExc
                 THEN [threads EXCEPT ![t].pc = "raised",
                          ![t].exc = Translate("dict variable", r).exc]
                 ELSE [threads EXCEPT ![t].pc = "store", ![t].obj = r.val]
       IN  /\ threads' = th
           /\ heap' = Collect(r.st.heap, _instances, th)
    /\ UNCHANGED <<_instances, __debug__, program, call, ret, exc, steps, text, sched>>

\* Faulty variant of RaceStore: an entry another thread stored meanwhile is
\* kept (a setdefault).
RaceStore_KeepsFirst(t) ==
    /\ threads[t].pc = "store"
    /\ _instances' = IF RaceClass \in DOMAIN _instances THEN _instances
                     ELSE (RaceClass :> IdOf(threads[t].obj)) @@ _instances
    /\ threads' = [threads EXCEPT ![t].pc = "return"]
    /\ heap' = Collect(heap, _instances', threads')
    /\ UNCHANGED <<__debug__, program, call, ret, exc, steps, text, sched>>

\* Line 142, the assignment: the instance is stored under the class,
\* whatever is stored there.
RaceStore(t) ==
    /\ threads[t].pc = "store"
    /\ _instances' = [c \in DOMAIN _instances \cup {RaceClass} |->
                        IF c = RaceClass THEN IdOf(threads[t].obj) ELSE _instances[c]]
    /\ threads' = [threads EXCEPT ![t].pc = "return"]
    /\ heap' = Collect(heap, _instances', threads')
    /\ UNCHANGED <<__debug__, program, call, ret, exc, steps, text, sched>>

\* Line 143: the registry is read again and its entry returned.
RaceReturn(t) ==
    /\ threads[t].pc = "return"
    /\ threads' = [threads EXCEPT ![t].pc = "done", ![t].obj = NoneV,
                                  ![t].ret = RefV(_instances[RaceClass])]
    /\ heap' = Collect(heap, _instances, threads')
    /\ UNCHANGED <<_instances, __debug__, program, call, ret, exc, steps, text, sched>>

\* Both calls are over: returned or raised.
AllDone == \A t \in Threads : threads[t].pc \in {"done", "raised"}

\* A load after the two calls.
LaterLoad ==
    /\ AllDone
    /\ \E v \in RaceMappings :
          Commit("load_from_dict", RaceClass, v, NoFile, load_from_dict(RaceClass, v, St0))

\* An instance() after the two calls.
LaterInstance ==
    /\ AllDone
    /\ Commit("instance", RaceClass, NoneV, NoFile, instance(RaceClass, St0))

RaceStep(t) == RaceCheck(t) \/ RaceConstruct(t) \/ RaceStore(t) \/ RaceReturn(t)

RaceNext == (\E t \in Threads : RaceStep(t)) \/ LaterLoad \/ LaterInstance

SpecRace == RaceInit /\ [][RaceNext]_vars

----------------------------------------------------------------------------
(* Vocabulary of the properties.                                           *)

Loads == {"load_from_dict", "from_file"}
Reloads == {"reload_from_dict", "reload_from_file"}
FileOps == {"from_file", "reload_from_file"}

\* The call's data reached the constructor: a mapping argument, or a file
\* that exists and that the YAML loader accepted.
Delivered(c) == c.op \notin FileOps \/ (c.file.isfile /\ c.file.parses)

NameSet(e) == {e.names[i] : i \in DOMAIN e.names}
Undeclared(cls, m) == {i \in DOMAIN m : m[i].k \notin ParamSet(cls)}
Omitted(cls, m) == Required(cls) \ Keys(m)
KeysMatch(cls, v) ==
    v.kind = "map" /\ Omitted(cls, v.m) = {} /\ Undeclared(cls, v.m) = {}

\* What mapping m gives parameter p of cls: its value for the key, or the
\* default the signature declares for p.
Given(cls, m, p) ==
    IF \E i \in DOMAIN m : m[i].k = p
    THEN m[Min({i \in DOMAIN m : m[i].k = p})].v
    ELSE LET d == Decl(cls).defaults
         IN  d[Min({i \in DOMAIN d : d[i].k = p})].v

\* v is a mapping cls can be constructed from when the classes in loaded
\* have an instance: its keys match the signature, a nested plain record's
\* document is accepted in turn, and a nested singleton class is either
\* loaded already or accepts its document.
RECURSIVE Accepts(_, _, _)
Accepts(cls, v, loaded) ==
    /\ KeysMatch(cls, v)
    /\ \A i \in DOMAIN Decl(cls).body :
          LET s == Decl(cls).body[i]
          IN  /\ s.stmt = "new" => Accepts(s.cls, Given(cls, v.m, s.param), loaded)
              /\ s.stmt = "load" =>
                   s.cls \in loaded \/ Accepts(s.cls, Given(cls, v.m, s.param), loaded)

\* A valid mapping: accepted whatever is loaded.
Valid(cls, v) == Accepts(cls, v, {})

HasField(h, id, attr) == id \in DOMAIN h /\ attr \in Keys(h[id])
Field(h, id, attr) == Get(h[id], attr)

\* The object id holds the values of mapping m (defaults for the omitted
\* keys).  A nested plain record holds its document's values in turn.  A
\* field built by another singleton class's load holds, read literally,
\* that document's values too; as the code has it, it refers to that
\* class's registered instance.
RECURSIVE HoldsMapping(_, _, _, _, _)
HoldsMapping(h, inst, id, m, literal) ==
    \A i \in DOMAIN Decl(id.cls).body :
        LET s == Decl(id.cls).body[i]
            given == Given(id.cls, m, s.param)
        IN  /\ HasField(h, id, s.attr)
            /\ LET held == Field(h, id, s.attr)
               IN  CASE s.stmt = "assign" -> held = given
                     [] s.stmt = "new" \/ (s.stmt = "load" /\ literal) ->
                          /\ held.kind = "ref" /\ held.cls = s.cls
                          /\ IdOf(held) \in DOMAIN h
                          /\ KeysMatch(s.cls, given)
                          /\ HoldsMapping(h, inst, IdOf(held), given.m, literal)
                     [] OTHER ->
                          s.cls \in DOMAIN inst /\ held = RefV(inst[s.cls])

----------------------------------------------------------------------------
(* C1.  Singleton invariant: at most one live instance of each declared    *)
(* class exists; the first successful load returns the instance it         *)
(* registers, and a later load with another valid mapping returns that     *)
(* same instance and leaves its field values as they were.                 *)

C1_OneLiveInstance ==
    \A cls \in Declared(program) :
        Cardinality({id \in DOMAIN heap : id.cls = cls}) <= 1

C1_LoadStep ==
    (call'.op \in Loads /\ Delivered(call') /\ Valid(call'.cls, call'.arg)) =>
        IF call'.cls \in DOMAIN _instances
        THEN /\ exc' = NoExc
             /\ ret' = RefV(_instances[call'.cls])
             /\ _instances' = _instances
             /\ heap' = heap
        ELSE /\ exc' = NoExc
             /\ call'.cls \in DOMAIN _instances'
             /\ ret' = RefV(_instances'[call'.cls])

\* C1: at most one live instance per class in every state, and every load
\* with a valid mapping behaves as C1_LoadStep says.
C1_SingletonInvariant == [](C1_OneLiveInstance) /\ [][C1_LoadStep]_vars

\* A second load, with data other than the instance's, has returned.
C1_Witness ==
    /\ call.op \in Loads /\ exc = NoExc /\ Valid(call.cls, call.arg)
    /\ call.cls = "Config" /\ ret = RefV(_instances["Config"])
    /\ Field(heap, _instances["Config"], "host") # Get(call.arg.m, "host")

----------------------------------------------------------------------------
(* C2.  As claimed: instance() on a class with no successful load fails    *)
(* with InstanceNotLoadedError, a kind distinct from ConfigFileParamError, *)
(* and leaves the registry unchanged.                                      *)

C2_Original ==
    [][(call'.op = "instance" /\ call'.cls \notin DOMAIN _instances) =>
          /\ exc'.type = "InstanceNotLoadedError"
          /\ exc'.type # "ConfigFileParamError"
          /\ _instances' = _instances]_vars

(* C2, amended.  instance() on a class with no successful load fails with  *)
(* ConfigFileParamError itself (its message says the instance was called   *)
(* without the data having been loaded) and leaves the registry and the    *)
(* objects unchanged.                                                      *)

C2_Amended ==
    [][(call'.op = "instance" /\ call'.cls \notin DOMAIN _instances) =>
          /\ exc' = Exc("ConfigFileParamError", "not_loaded", <<>>, "")
          /\ ret' = NoneV
          /\ _instances' = _instances
          /\ heap' = heap]_vars

C2_Witness ==
    /\ call.op = "instance" /\ call.cls \notin DOMAIN _instances
    /\ exc.type = "ConfigFileParamError" /\ exc.kind = "not_loaded"

----------------------------------------------------------------------------
(* C3.  As claimed: in every state, loaded or not, load_from_dict with a   *)
(* mapping that omits a required field f fails with ConfigFileParamError   *)
(* and the message names f.                                                *)

C3_Original ==
    (call.op = "load_from_dict" /\ call.arg.kind = "map"
       /\ Omitted(call.cls, call.arg.m) # {}) =>
        /\ exc.type = "ConfigFileParamError"
        /\ Omitted(call.cls, call.arg.m) \subseteq NameSet(exc)

(* C3, amended.  For a class with no instance yet and a mapping that omits *)
(* required fields and holds no undeclared key, load_from_dict fails with  *)
(* ConfigFileParamError, the message names every omitted required field,   *)
(* and nothing is registered.                                              *)

C3_Amended ==
    [][(call'.op = "load_from_dict" /\ call'.cls \notin DOMAIN _instances
          /\ call'.arg.kind = "map"
          /\ Omitted(call'.cls, call'.arg.m) # {}
          /\ Undeclared(call'.cls, call'.arg.m) = {}) =>
          /\ exc'.type = "ConfigFileParamError"
          /\ exc'.kind = "missing"
          /\ NameSet(exc') = Omitted(call'.cls, call'.arg.m)
          /\ _instances' = _instances]_vars

\* A load that omitted two required fields failed naming both.
C3_Witness ==
    /\ call.op = "load_from_dict" /\ call.cls \notin DOMAIN _instances
    /\ exc.type = "ConfigFileParamError" /\ exc.kind = "missing"
    /\ Cardinality(Omitted(call.cls, call.arg.m)) >= 2
    /\ NameSet(exc) = Omitted(call.cls, call.arg.m)

----------------------------------------------------------------------------
(* C4.  As claimed: in every state, loaded or not, a load whose mapping    *)
(* holds a key k the constructor does not declare fails with               *)
(* ConfigFileParamError and the message names k.                           *)

C4_Original ==
    (call.op \in Loads /\ Delivered(call) /\ call.arg.kind = "map"
       /\ Undeclared(call.cls, call.arg.m) # {}) =>
        /\ exc.type = "ConfigFileParamError"
        /\ \A i \in Undeclared(call.cls, call.arg.m) : call.arg.m[i].k \in NameSet(exc)

(* C4, amended.  For a class with no instance yet, a load whose mapping    *)
(* holds undeclared keys fails with ConfigFileParamError; the message      *)
(* names the first undeclared key in the mapping's order, and only that    *)
(* one, whether or not required fields are missing as well; nothing is     *)
(* registered.                                                             *)

C4_Amended ==
    [][(call'.op \in Loads /\ Delivered(call') /\ call'.arg.kind = "map"
          /\ call'.cls \notin DOMAIN _instances
          /\ Undeclared(call'.cls, call'.arg.m) # {}) =>
          /\ exc'.type = "ConfigFileParamError"
          /\ exc'.kind = "unexpected"
          /\ exc'.names = <<call'.arg.m[Min(Undeclared(call'.cls, call'.arg.m))].k>>
          /\ _instances' = _instances]_vars

\* A load with two undeclared keys failed naming the first of them.
C4_Witness ==
    /\ call.op = "load_from_dict" /\ call.cls \notin DOMAIN _instances
    /\ Cardinality(Undeclared(call.cls, call.arg.m)) = 2
    /\ exc.type = "ConfigFileParamError" /\ exc.names = <<"other">>

----------------------------------------------------------------------------
(* C5.  As claimed: for a class with no instance yet, load_from_dict       *)
(* succeeds and registers the instance exactly when the mapping's keys     *)
(* hold every required field and only declared fields; on success every    *)
(* field holds the mapping's value, or its declared default when omitted.  *)

----------------------------------------------------------------------------
(* C6.  As claimed: a reload of a loaded class with a valid mapping leaves *)
(* the registry as it was (same instance identity) and afterwards every    *)
(* field of the instance holds the mapping's value (or the default).       *)

C6_Original ==
    [][(call'.op \in Reloads /\ Delivered(call') /\ Valid(call'.cls, call'.arg)) =>
          /\ exc' = NoExc
          /\ _instances' = _instances
          /\ HoldsMapping(heap', _instances', _instances[call'.cls],
                          call'.arg.m, TRUE)]_vars

(* C6, amended.  A reload of a loaded class with a valid mapping leaves    *)
(* the registry as it was (same instance identity); afterwards every field *)
(* assigned from a parameter holds the mapping's value (or the default)    *)
(* and a nested plain record holds its document's values; a field built by *)
(* another singleton class's load still refers to that class's registered  *)
(* instance, whose own fields the reload leaves as they were.              *)

C6_Amended ==
    [][(call'.op \in Reloads /\ Delivered(call') /\ Valid(call'.cls, call'.arg)) =>
          LET self == _instances[call'.cls]
              body == Decl(call'.cls).body
          IN  /\ exc' = NoExc
              /\ _instances' = _instances
              /\ HoldsMapping(heap', _instances', self, call'.arg.m, FALSE)
              /\ \A i \in DOMAIN body :
                    body[i].stmt = "load" =>
                        heap'[_instances[body[i].cls]] = heap[_instances[body[i].cls]]]_vars

\* NewConfigurationData was reloaded with other data for ConfigurationData:
\* its own field is refreshed, ConfigurationData's is not.
C6_Witness ==
    /\ call.op \in Reloads /\ call.cls = "NewConfigurationData" /\ exc = NoExc
    /\ Valid(call.cls, call.arg)
    /\ Field(heap, _instances["NewConfigurationData"], "param5")
          = Get(call.arg.m, "param5")
    /\ Field(heap, _instances["ConfigurationData"], "param1")
          # Get(Get(call.arg.m, "data_conf").m, "param1")

----------------------------------------------------------------------------
(* C7.  As claimed: a load or reload that fails with ConfigFileParamError  *)
(* applies nothing: the registry and every field of every object are as    *)
(* they were before the call.                                              *)

C7_Original ==
    [][(call'.op \in Loads \cup Reloads /\ exc'.type = "ConfigFileParamError") =>
          /\ _instances' = _instances
          /\ heap' = heap]_vars

----------------------------------------------------------------------------
(* C8.  As claimed: from_file and reload_from_file with a path that names  *)
(* no existing regular file fail, in every execution, with the path        *)
(* precondition's error (the AssertionError of "assert isfile") before the *)
(* file is opened or parsed, leaving the registry and the objects          *)
(* unchanged.                                                              *)

C8_Original ==
    [][(call'.op \in FileOps /\ ~call'.file.isfile) =>
          /\ exc'.type = "AssertionError"
          /\ \A i \in DOMAIN steps' : steps'[i] \notin {"open", "load"}
          /\ _instances' = _instances
          /\ heap' = heap]_vars

----------------------------------------------------------------------------
(* C9.  Registry monotonicity: no call removes a registry entry or rebinds *)
(* it to another instance, the registered instance stays alive, and        *)
(* instance() on a loaded class succeeds and returns the registered        *)
(* instance.                                                               *)

C9_Step ==
    /\ \A cls \in DOMAIN _instances :
          /\ cls \in DOMAIN _instances'
          /\ _instances'[cls] = _instances[cls]
          /\ _instances[cls] \in DOMAIN heap'
    /\ (call'.op = "instance" /\ call'.cls \in DOMAIN _instances) =>
          /\ exc' = NoExc
          /\ ret' = RefV(_instances[call'.cls])

\* C9: every step keeps every registry entry and its instance (C9_Step).
C9_RegistryMonotonic == [][C9_Step]_vars

\* Every class of the program is loaded and instance() has returned one.
C9_Witness ==
    /\ call.op = "instance" /\ exc = NoExc
    /\ DOMAIN _instances = Declared(program)
    /\ ret = RefV(_instances[call.cls])

----------------------------------------------------------------------------
(* C10.  As claimed: for distinct classes A and B, loading A never         *)
(* creates, replaces or returns an entry for B; instance() on an unloaded  *)
(* class fails whatever else is loaded; the instances of two loaded        *)
(* classes are distinct.                                                   *)

Distinct(inst) ==
    \A a \in DOMAIN inst : \A b \in DOMAIN inst : a # b => inst[a] # inst[b]

\* C10 as claimed: loading A never touches or creates any other entry.
C10_Original ==
    [][/\ call'.op \in Loads =>
             \A b \in Declared(program) \ {call'.cls} :
                 /\ b \in DOMAIN _instances' <=> b \in DOMAIN _instances
                 /\ b \in DOMAIN _instances => _instances'[b] = _instances[b]
                 /\ b \in DOMAIN _instances' => ret' # RefV(_instances'[b])
       /\ (call'.op = "instance" /\ call'.cls \notin DOMAIN _instances) =>
             exc' # NoExc
       /\ Distinct(_instances')]_vars

(* C10, amended.  For distinct classes A and B, loading A never replaces   *)
(* or returns an entry for B, and creates one only when A's constructor    *)
(* itself loads B (composition); every entry holds an instance of exactly  *)
(* the class it is keyed by, a subclass never sharing its base's entry;    *)
(* instance() on an unloaded class fails whatever else is loaded; the      *)
(* instances of two loaded classes are distinct.                           *)

Composes(cls) ==
    {Decl(cls).body[i].cls :
        i \in {j \in DOMAIN Decl(cls).body : Decl(cls).body[j].stmt = "load"}}

\* C10, amended: another entry appears only by composition.
C10_Amended ==
    [][/\ call'.op \in Loads =>
             \A b \in Declared(program) \ {call'.cls} :
                 /\ b \in DOMAIN _instances =>
                       b \in DOMAIN _instances' /\ _instances'[b] = _instances[b]
                 /\ (b \in DOMAIN _instances' /\ b \notin DOMAIN _instances) =>
                       b \in Composes(call'.cls)
                 /\ b \in DOMAIN _instances' => ret' # RefV(_instances'[b])
       /\ \A c \in DOMAIN _instances' : _instances'[c].cls = c
       /\ (call'.op = "instance" /\ call'.cls \notin DOMAIN _instances) =>
             exc' # NoExc
       /\ Distinct(_instances')]_vars

\* The subclass was loaded after its base: two entries, two instances.
C10_Witness ==
    /\ call.op \in Loads /\ call.cls = "ChildConfig" /\ exc = NoExc
    /\ DOMAIN _instances = {"Config", "ChildConfig"}
    /\ ret = RefV(_instances["ChildConfig"])
    /\ _instances["Config"] # _instances["ChildConfig"]
    /\ _instances["ChildConfig"].cls = "ChildConfig"

----------------------------------------------------------------------------
(* C11.  Error origin.  A ConfigFileParamError of a load or reload names   *)
(* where the data came from.                                               *)

Mismatch == {"missing", "unexpected", "not_a_mapping"}

\* The label of the mapping operations, as the source writes it (lines 221
\* and 250); the specification renders it "mapping variable".
MappingLabel == "dict variable"

\* C11 as stated: a parameter-mismatch ConfigFileParamError carries the file
\* path when from_file or reload_from_file raised it and the generic label
\* when load_from_dict or reload_from_dict raised it.
C11_Original ==
    (exc.type = "ConfigFileParamError" /\ exc.kind \in Mismatch) =>
        exc.origin = IF call.op \in FileOps THEN call.file.path
                     ELSE MappingLabel

\* The constructor of cls, given v while the classes in loaded have an
\* instance, binds v and fails inside the load_from_dict of a class it
\* composes: every statement before that load succeeds and the composed
\* class, not loaded yet, does not accept its document.
FailsInLoad(cls, v, loaded) ==
    /\ KeysMatch(cls, v)
    /\ \E i \in DOMAIN Decl(cls).body :
          LET s == Decl(cls).body[i]
          IN  /\ s.stmt = "load" /\ s.cls \notin loaded
              /\ ~Accepts(s.cls, Given(cls, v.m, s.param), loaded)
              /\ \A j \in 1..(i - 1) :
                    LET b == Decl(cls).body[j]
                    IN  b.stmt # "assign" =>
                          Accepts(b.cls, Given(cls, v.m, b.param), loaded)

\* C11 as the code has it: the label of the mapping operations is
\* "dict variable"; a file operation's exception carries the path, except
\* that a mismatch met inside the load_from_dict of a composed class carries
\* "dict variable" whatever operation started the construction.
C11_Step ==
    (exc'.type = "ConfigFileParamError" /\ exc'.kind \in Mismatch) =>
        exc'.origin =
            IF call'.op \in FileOps
               /\ ~(call'.op \in Loads
                    /\ FailsInLoad(call'.cls, call'.arg, DOMAIN _instances))
            THEN call'.file.path
            ELSE MappingLabel

\* C11 amended: every call's ConfigFileParamError names its origin so.
C11_Amended == [][C11_Step]_vars

\* A first load of NewConfigurationData from a file failed inside the load
\* of ConfigurationData: the exception names "dict variable", not the path.
C11_Witness ==
    /\ call.op = "from_file" /\ call.cls = "NewConfigurationData"
    /\ exc.type = "ConfigFileParamError" /\ exc.kind = "missing"
    /\ exc.origin = MappingLabel /\ call.file.path = "conf.yml"

----------------------------------------------------------------------------
(* C12.  Errors of the YAML loader.                                        *)

Ran(s, step) == \E i \in DOMAIN s : s[i] = step

\* A file operation on a file the loader rejects raises the loader's error
\* as it is: no constructor runs, the registry and the objects stay.
C12_LoaderError ==
    (call'.op \in FileOps /\ call'.file.isfile /\ ~call'.file.parses) =>
        /\ exc'.type = "YAMLError" /\ exc'.kind = "parse"
        /\ ~Ran(steps', "__call__") /\ ~Ran(steps', "__init__")
        /\ _instances' = _instances /\ heap' = heap

\* A file operation's ConfigFileParamError is the translation of a
\* parameter mismatch of the construction: the file was read and loaded.
C12_OnlyMismatch ==
    (call'.op \in FileOps /\ exc'.type = "ConfigFileParamError") =>
        /\ Delivered(call') /\ Ran(steps', "load")
        /\ exc'.kind \in Mismatch
        /\ ~Accepts(call'.cls, call'.arg, DOMAIN _instances)

\* C12: errors the YAML loader raises in from_file and reload_from_file
\* reach the caller unmodified, with no constructor run and the registry
\* and the instance unchanged; only parameter mismatches of the
\* construction become ConfigFileParamError.
C12_LoaderErrorsPropagate == [][C12_LoaderError /\ C12_OnlyMismatch]_vars

\* A reload of a loaded class from a file the loader rejects has raised the
\* loader's error.
C12_Witness ==
    /\ call.op = "reload_from_file" /\ call.file.path = "broken.yml"
    /\ call.cls \in DOMAIN _instances
    /\ exc.type = "YAMLError" /\ __debug__ /\ steps = <<"isfile", "open", "load">>

----------------------------------------------------------------------------
(* C13.  The sleep after an invocation.                                    *)

Max(a, b) == IF a >= b THEN a ELSE b

\* The whole seconds of a duration.
WholeSeconds(td) == td.days * SecondsPerDay + td.seconds

\* C13 as claimed: after an invocation that took d seconds the sleep is
\* max(0, 60 * minutes - d) seconds, whatever d is, a day or more included.
\* (d is taken in whole seconds here: the claim read to the fraction of a
\* second fails wherever this fails.)
C13_Original ==
    sched.pc = "sleep" =>
        sched.wait_until
          = Max(0, SecondsPerMinute * sched.minutes - WholeSeconds(sched.elapsed))

\* The sleep is never negative.
C13_NeverNegative == sched.wait_until >= 0

----------------------------------------------------------------------------
(* C14.  The loop of a scheduled function.                                 *)

\* The call of the decorated function is in its loop or has ended with
\* func's exception: it has not returned.
C14_NotReturned == sched.pc \in {"func", "sleep", "raised"}

\* One sleep after each invocation that returned, none after one that
\* raised (as far as the invocations are counted).
C14_OneSleepBetween ==
    sched.invocations < MaxCount =>
        sched.sleeps = IF sched.pc = "func" THEN sched.invocations
                       ELSE sched.invocations - 1

\* schedule_every_five_minutes is schedule_every with a period of 5.
C14_FivePeriod ==
    sched.decorator = "schedule_every_five_minutes" => sched.minutes = FiveMinutes

\* C14: the call of a function wrapped by schedule_every (or by
\* schedule_every_five_minutes, period 5) never returns; func is invoked
\* again and again, one sleep between two invocations, unless an
\* invocation raises, and then the exception ends the call: no invocation
\* and no sleep follows.
C14_LoopsUntilFailure ==
    /\ [](C14_NotReturned /\ C14_OneSleepBetween /\ C14_FivePeriod)
    /\ [][sched.pc = "raised" => sched' = sched]_vars
    /\ ([]<>(sched.pc = "sleep") \/ <>(sched.pc = "raised"))

\* func, scheduled every five minutes, raised in its third invocation,
\* after two sleeps.
C14_Witness ==
    /\ sched.decorator = "schedule_every_five_minutes" /\ sched.pc = "raised"
    /\ sched.invocations = 3 /\ sched.sleeps = 2

----------------------------------------------------------------------------
(* C15.  Textual representation.                                           *)

\* The fields cls declares, in the order its __init__ declares them.
Fields(cls) == [i \in DOMAIN Decl(cls).body |-> Decl(cls).body[i].attr]

\* TypeName(field1=value1, field2=value2, ...) for the object id, the
\* fields in declaration order, a field holding an object rendered so too.
RECURSIVE Rendering(_, _)
Rendering(h, id) ==
    LET f == Fields(id.cls)
        Value(a) == LET held == Field(h, id, a)
                    IN  CASE held.kind = "ref" -> Rendering(h, IdOf(held))
                          [] held.kind = "int" -> IntRepr(held.n)
                          [] OTHER -> "?"
    IN  id.cls \o "(" \o Join([i \in DOMAIN f |-> f[i] \o "=" \o Value(f[i])]) \o ")"

\* C15: the representation of a configuration instance or of a nested
\* record is the type name and the fields as name=value in declaration
\* order, whatever loads and reloads (failed ones too) came before.
C15_ReprInDeclarationOrder ==
    call.op = "__repr__" =>
        /\ \A a \in Keys(heap[IdOf(call.arg)]) :
              \E i \in DOMAIN Fields(call.cls) : Fields(call.cls)[i] = a
        /\ text = Rendering(heap, IdOf(call.arg))

\* A NewConfigurationData that was reloaded is rendered, its composed
\* ConfigurationData and the nested record inside.
C15_Witness ==
    /\ call.op = "__repr__" /\ call.cls = "NewConfigurationData"
    /\ Field(heap, IdOf(call.arg), "param5") = IntV(2)
    /\ text = "NewConfigurationData(config_data=ConfigurationData(param1=1, param2=1, "
                \o "subconf=_SubConfig(param3=1, param4=1)), param5=2, param6=1)"

----------------------------------------------------------------------------
(* C16.  Get-or-create ignores the arguments once the class is loaded.     *)

\* load_from_dict of a loaded class returns the registered instance for
\* whatever mapping it is given: no constructor runs, nothing is raised,
\* the registry and the objects stay.
C16_CachedLoad ==
    (call'.op = "load_from_dict" /\ call'.cls \in DOMAIN _instances
       /\ call'.arg.kind = "map") =>
        /\ exc' = NoExc
        /\ ret' = RefV(_instances[call'.cls])
        /\ ~Ran(steps', "__init__")
        /\ _instances' = _instances /\ heap' = heap

\* The registry changes only by gaining the entry of a class on its first
\* successful construction, in a load.
C16_RegistryFrame ==
    /\ \A c \in DOMAIN _instances :
          c \in DOMAIN _instances' /\ _instances'[c] = _instances[c]
    /\ \A c \in DOMAIN _instances' \ DOMAIN _instances :
          /\ call'.op \in Loads /\ exc' = NoExc /\ Ran(steps', "__init__")
          /\ _instances'[c].cls = c /\ _instances'[c] \notin DOMAIN heap

\* C16: once T has an instance, load_from_dict(T, m) returns it for every
\* mapping m, complete or not, without constructing, raising or changing
\* anything; only the first successful construction of a class changes the
\* registry.
C16_LoadIgnoresArguments == [][C16_CachedLoad /\ C16_RegistryFrame]_vars

\* A loaded class was asked to load an empty mapping and answered with its
\* instance.
C16_Witness ==
    /\ call.op = "load_from_dict" /\ call.arg = MapV(<<>>)
    /\ exc = NoExc /\ call.cls \in DOMAIN _instances
    /\ ret = RefV(_instances[call.cls])

----------------------------------------------------------------------------
(* C17.  Two threads in the first load of the same class.                  *)

\* After both calls the registry holds one entry, the class's, a live
\* instance of the class, and what a call returned is a live instance too.
C17_OneEntry ==
    (AllDone /\ \E t \in Threads : threads[t].pc = "done") =>
        /\ DOMAIN _instances = {RaceClass}
        /\ _instances[RaceClass].cls = RaceClass
        /\ _instances[RaceClass] \in DOMAIN heap
        /\ \A t \in Threads :
              threads[t].pc = "done" =>
                  /\ threads[t].ret.kind = "ref" /\ threads[t].ret.cls = RaceClass
                  /\ IdOf(threads[t].ret) \in DOMAIN heap

\* After both calls, with the class registered, every load and every
\* instance() returns the registered instance and leaves the registry.
C17_LaterStep ==
    (AllDone /\ RaceClass \in DOMAIN _instances) =>
        /\ _instances' = _instances
        /\ call'.op \in {"load_from_dict", "instance"}
        /\ exc' = NoExc /\ ret' = RefV(_instances[RaceClass])

\* The store of a thread replaces whatever another thread stored: the
\* registry's one entry is the instance stored last.
C17_StoreStep ==
    \A t \in Threads :
        (threads[t].pc = "store" /\ threads'[t].pc = "return") =>
            _instances' = (RaceClass :> IdOf(threads[t].obj))

\* C17: two threads in the first load of T, the check, the construction and
\* the store being separate steps, may construct two instances and return
\* different ones (the witness); yet after both calls the registry holds
\* exactly one entry for T, and every later load or instance() returns it.
C17_RaceLeavesOneEntry == []C17_OneEntry /\ [][C17_LaterStep /\ C17_StoreStep]_vars

\* Both calls returned, each its own instance; the registry holds the
\* second one and a later load returned it.
C17_Witness ==
    /\ \A t \in Threads : threads[t].pc = "done"
    /\ threads["t1"].ret # threads["t2"].ret
    /\ {IdOf(threads["t1"].ret), IdOf(threads["t2"].ret)} \subseteq DOMAIN heap
    /\ _instances[RaceClass] = IdOf(threads["t2"].ret)
    /\ call.op = "load_from_dict" /\ call.arg = ConfigMap(One)
    /\ ret = threads["t2"].ret
    /\ Field(heap, IdOf(threads["t1"].ret), "host") = IntV(1)
    /\ Field(heap, IdOf(threads["t2"].ret), "host") = IntV(2)

----------------------------------------------------------------------------
(* C18.  A nested plain record is never cached.                            *)

\* The fields of cls that hold a nested plain record.
NestedFields(cls) ==
    {Decl(cls).body[i].attr : i \in {j \in DOMAIN Decl(cls).body :
                                        Decl(cls).body[j].stmt = "new"}}

\* A successful reload leaves the owner registered as it was and gives each
\* nested field a record that did not exist before the reload.
C18_ReloadBuildsNew ==
    (call'.op \in Reloads /\ exc' = NoExc) =>
        /\ _instances' = _instances
        /\ \A a \in NestedFields(call'.cls) :
              LET self == _instances[call'.cls]
                  old == Field(heap, self, a)
                  new == Field(heap', self, a)
              IN  /\ new.kind = "ref" /\ new.cls = "_SubConfig"
                  /\ new # old /\ IdOf(new) \notin DOMAIN heap
                  /\ IdOf(new) \in DOMAIN heap'

\* A construction gives each nested field a record that did not exist
\* before it.
C18_ConstructionBuildsNew ==
    \A c \in DOMAIN _instances' \ DOMAIN _instances :
        \A a \in NestedFields(c) :
            LET new == Field(heap', _instances'[c], a)
            IN  new.kind = "ref" /\ new.cls = "_SubConfig"
                  /\ IdOf(new) \notin DOMAIN heap

\* The registry holds instances of singleton configuration classes only.
C18_NotRegistered ==
    \A c \in DOMAIN _instances' :
        Decl(c).singleton /\ c # "_SubConfig" /\ _instances'[c].cls = c

\* C18: every construction and every successful reload of the owner creates
\* a new nested record: after a reload the owner is the same object and its
\* nested field refers to another record than before; a nested record is
\* never in the registry.
C18_NestedNeverCached ==
    [][C18_ReloadBuildsNew /\ C18_ConstructionBuildsNew /\ C18_NotRegistered]_vars

\* ConfigurationData was reloaded, from a mapping with the same nested
\* document as it holds, and holds another nested record than the first.
C18_Witness ==
    /\ call.op = "reload_from_dict" /\ call.cls = "ConfigurationData" /\ exc = NoExc
    /\ call.arg = DataMap(One, SubConfMap(One))
    /\ Field(heap, _instances["ConfigurationData"], "subconf")
         = RefV([cls |-> "_SubConfig", n |-> 2])

----------------------------------------------------------------------------
(* C19.  Two-tier composition under reload.                                *)

\* The statements of cls.__init__ that build a field by the load_from_dict
\* of another singleton class.
LoadStmts(cls) ==
    {Decl(cls).body[i] : i \in {j \in DOMAIN Decl(cls).body :
                                   Decl(cls).body[j].stmt = "load"}}

\* A reload of A with a valid mapping gives A's plain fields the mapping's
\* values; the instance of a class B that A composes stays the registered
\* one, with every object it reaches as it was, and A's field refers to it.
C19_Step ==
    (call'.op \in Reloads /\ Delivered(call') /\ Valid(call'.cls, call'.arg)
       /\ LoadStmts(call'.cls) # {}) =>
        LET A == _instances[call'.cls]
            body == Decl(call'.cls).body
        IN  /\ exc' = NoExc /\ _instances'[call'.cls] = A
            /\ \A i \in DOMAIN body :
                  body[i].stmt = "assign" =>
                      Field(heap', A, body[i].attr)
                        = Given(call'.cls, call'.arg.m, body[i].param)
            /\ \A s \in LoadStmts(call'.cls) :
                  LET B == _instances[s.cls]
                  IN  /\ _instances'[s.cls] = B
                      /\ \A id \in Reach(heap, {B}) :
                            id \in DOMAIN heap' /\ heap'[id] = heap[id]
                      /\ Field(heap, A, s.attr) = RefV(B)
                      /\ Field(heap', A, s.attr) = RefV(B)

\* C19: reloading A, whose constructor calls B.load_from_dict, with a valid
\* mapping refreshes A's plain fields and ignores the data for B: B's
\* instance and its field values stay, and A's field still refers to it.
C19_ComposedInstanceKept == [][C19_Step]_vars

\* NewConfigurationData was reloaded with param5 = 2 and a data_conf whose
\* param1 is 2: it holds param5 = 2 and the ConfigurationData instance still
\* holds param1 = 1.
C19_Witness ==
    /\ call.op = "reload_from_dict" /\ exc = NoExc
    /\ call.arg = NewDataMap(IntV(2), DataMap(IntV(2), SubConfMap(One)))
    /\ Field(heap, _instances["NewConfigurationData"], "param5") = IntV(2)
    /\ Field(heap, _instances["NewConfigurationData"], "config_data")
         = RefV(_instances["ConfigurationData"])
    /\ Field(heap, _instances["ConfigurationData"], "param1") = IntV(1)

====
